---- MODULE Spec2Model ----
(***************************************************************************)
(* Model of the trust-registry part of the QR scanner service:             *)
(*   - the EbsiCache collection (models/EbsiCache.js, bundled in           *)
(*     src/server.js) with its schema rules (unique thumbprint, required   *)
(*     boolean `found`) and the document save discipline of the ODM        *)
(*     (validation before the write, insert of new documents, per-path     *)
(*     $set of modified paths of loaded documents, keyed by _id);          *)
(*   - checkThumbprintInBridge, refreshCacheInBackground, the cache        *)
(*     administration routes and processVerificationData                   *)
(*     (src/routes/scanRoutes.js).                                         *)
(* Every `await` of the source is a point where other handlers may run, so *)
(* each action below is the code between two awaits.                       *)
(***************************************************************************)
EXTENDS Integers, Sequences, FiniteSets, TLC

\* ---------------------------------------------------------------- bounds
NumThumbprints == 2
\* requests served in one run: lookups and verifications, refresh-all and
\* clear-all requests together
MaxRequests == 2
\* batch size of getEntriesNeedingRefresh(50), scaled down so that
\* more entries than one batch can be flagged
BatchSize == 1
\* longest thumbprint text handed to the encoding helpers
MaxLen == 4
\* session ids of the progress stream, and connections opened in one run
NumSessions == 2
MaxConnections == 3
\* set-reference requests served in one run
MaxReferences == 3

Thumbprints == 1..NumThumbprints
SessionIds == 1..NumSessions
\* callers of checkThumbprintInBridge: two interactive requests that may
\* overlap, and one refreshCacheInBackground cycle
Clients == {1, 2}
Refreshers == {3}
\* refresh cycles that can be pending or running at a time: the refresher's,
\* and one more timer set by a second mark-all before the first has fired
Cycles == Refreshers \cup {4}
Ctx == Clients \cup Cycles

\* ------------------------------------------------- thumbprint encodings
\* a thumbprint text is a sequence of characters; "A" stands for every
\* character that is in both base64 alphabets
Alphabet == {"A", "+", "/", "=", "-", "_"}

Texts == UNION {[1..n -> Alphabet] : n \in 0..MaxLen}

Includes(s, ch) == \E i \in 1..Len(s) : s[i] = ch

\* String.prototype.replace(/from/g, to)
ReplaceAll(s, from, to) == [i \in 1..Len(s) |-> IF s[i] = from THEN to ELSE s[i]]

\* String.prototype.replace(/ch/g, '')
Remove(s, ch) == LET Keep(x) == x # ch IN SelectSeq(s, Keep)

\* '='.repeat(n)
Repeat(n) == [i \in 1..n |-> "="]

base64ToBase64Url(base64) ==
  Remove(ReplaceAll(ReplaceAll(base64, "+", "-"), "/", "_"), "=")

\* the conversion back without the re-padding
base64UrlToBase64_NoPadding(base64url) ==
  ReplaceAll(ReplaceAll(base64url, "-", "+"), "_", "/")

base64UrlToBase64(base64url) ==
  LET base64 == ReplaceAll(ReplaceAll(base64url, "-", "+"), "_", "/")
      padding == Len(base64) % 4
  IN IF padding # 0 THEN base64 \o Repeat(4 - padding) ELSE base64

\* the policy with the mixed case converted like the standard case
normalizeThumbprintForEbsi_MixedConverted(thumbprint) ==
  LET hasBase64Chars == Includes(thumbprint, "+") \/ Includes(thumbprint, "/")
                          \/ Includes(thumbprint, "=")
      hasBase64UrlChars == Includes(thumbprint, "-") \/ Includes(thumbprint, "_")
  IN IF hasBase64Chars
       THEN [normalized |-> base64ToBase64Url(thumbprint),
             conversionApplied |-> "base64-to-base64url", original |-> thumbprint]
     ELSE IF hasBase64UrlChars
       THEN [normalized |-> thumbprint,
             conversionApplied |-> "already-base64url", original |-> thumbprint]
     ELSE [normalized |-> thumbprint,
           conversionApplied |-> "assumed-base64url", original |-> thumbprint]

\* the catch clause ('error-kept-original') is entered only when the
\* argument is not a string, which no caller passes
normalizeThumbprintForEbsi(thumbprint) ==
  LET hasBase64Chars == Includes(thumbprint, "+") \/ Includes(thumbprint, "/")
                          \/ Includes(thumbprint, "=")
      hasBase64UrlChars == Includes(thumbprint, "-") \/ Includes(thumbprint, "_")
  IN IF hasBase64Chars /\ ~hasBase64UrlChars
       THEN [normalized |-> base64ToBase64Url(thumbprint),
             conversionApplied |-> "base64-to-base64url", original |-> thumbprint]
     ELSE IF hasBase64UrlChars /\ ~hasBase64Chars
       THEN [normalized |-> thumbprint,
             conversionApplied |-> "already-base64url", original |-> thumbprint]
     ELSE IF ~hasBase64Chars /\ ~hasBase64UrlChars
       THEN [normalized |-> thumbprint,
             conversionApplied |-> "assumed-base64url", original |-> thumbprint]
     ELSE [normalized |-> thumbprint,
           conversionApplied |-> "mixed-encoding-kept-as-is", original |-> thumbprint]

\* ------------------------------------------------------- registry answers
\* "issuers": 200 with a non-empty JSON array; "empty": 200 with [];
\* "http503": non-2xx answer; "timeout": no response at all (network failure
\* or the 10s axios timeout).
RegistryOk == {"issuers", "empty"}
RegistryFail == {"http503", "timeout"}
RegistryAnswers == RegistryOk \cup RegistryFail

HttpStatus(a) == IF a \in RegistryOk THEN 200 ELSE IF a = "http503" THEN 503 ELSE 0

\* error.response?.status || 0
ErrorStatus(a) == IF a = "http503" THEN 503 ELSE 0

\* ------------------------------------------------------------- documents
NoStatus == -1

\* the document `new this({thumbprint, found: false, source: 'verification'})`
\* with the schema defaults
NewDoc(t) ==
  [id |-> 0, thumbprint |-> t, found |-> "false", ebsiResponse |-> "null",
   publicKey |-> "null", issuerInfo |-> "unset", lastChecked |-> "now",
   hitCount |-> 1, needsRefresh |-> FALSE, source |-> "verification",
   lastStatus |-> NoStatus, lastError |-> "null"]

NoDoc == [NewDoc(0) EXCEPT !.hitCount = 0, !.source = "none"]

DocFields == DOMAIN NoDoc

\* response && Array.isArray(response) && response.length > 0
FoundOf(response) ==
  IF response = "null" THEN "null"
  ELSE IF response = "issuers" THEN "true" ELSE "false"

\* body of updateWithEbsiResponse up to (not including) this.save()
updateWithEbsiResponse(d, response, status, error) ==
  LET f == FoundOf(response) IN
  [d EXCEPT !.found = f,
            !.ebsiResponse = response,
            !.lastChecked = "now",
            !.lastStatus = status,
            !.lastError = error,
            !.needsRefresh = FALSE,
            !.hitCount = d.hitCount + 1,
            !.publicKey = IF f = "true" THEN "issuer0" ELSE "null",
            !.issuerInfo = IF f = "true" THEN "issuer0" ELSE "empty"]

\* schema: found { type: Boolean, required: true }
Validates(d) == d.found \in {"true", "false"}

\* the collection without the unique index on thumbprint
DuplicateKey_NoUniqueIndex(c, d) == FALSE

\* schema: thumbprint { unique: true }
DuplicateKey(c, d) == \E x \in c : x.thumbprint = d.thumbprint

\* The thumbprint strings the abstract thumbprints stand for: thumbprint 1 is
\* written in standard base64, thumbprint 2 is the URL-safe writing of the
\* same bytes, the others are strings without special characters.
ThumbprintText(t) ==
  IF t = 1 THEN <<"+", "A", "=">>
  ELSE IF t = 2 THEN <<"-", "A">>
  ELSE [i \in 1..t |-> "A"]

\* a query on the normalized form of the thumbprint instead of the string
findOne_Normalized(c, t) ==
  LET Same(x) == normalizeThumbprintForEbsi(ThumbprintText(x.thumbprint)).normalized
                   = normalizeThumbprintForEbsi(ThumbprintText(t)).normalized IN
  IF \E x \in c : Same(x) THEN CHOOSE x \in c : Same(x) ELSE NoDoc

\* EbsiCache.findOne({ thumbprint })
findOne(c, t) ==
  IF \E x \in c : x.thumbprint = t
    THEN CHOOSE x \in c : x.thumbprint = t
    ELSE NoDoc

\* the $set of the modified paths of a loaded document
ApplyDelta(dbDoc, orig, cur) ==
  [f \in DocFields |-> IF cur[f] # orig[f] THEN cur[f] ELSE dbDoc[f]]

\* outcome of document.save(): "ok" or the error it rejects with
SaveResult(c, isNew, cur) ==
  IF ~Validates(cur) THEN "ValidationError"
  ELSE IF isNew THEN (IF DuplicateKey(c, cur) THEN "E11000" ELSE "ok")
  ELSE IF \E x \in c : x.id = cur.id THEN "ok" ELSE "DocumentNotFoundError"

\* the collection after a successful document.save()
SaveWrite(c, isNew, orig, cur, newId) ==
  IF isNew THEN c \cup {[cur EXCEPT !.id = newId]}
  ELSE {IF x.id = cur.id THEN ApplyDelta(x, orig, cur) ELSE x : x \in c}

\* ---------------------------------------------------- validateJwtSignature
\* The token is represented by what the validator makes of it: whether it
\* splits into three segments, whether its header parses as JSON, the alg
\* of the header and whether the signature bytes match the signing input
\* under the issuer's key.
NoToken == [parts |-> "three", header |-> "json", alg |-> "RS256", sig |-> "valid"]

Tokens ==
  {[NoToken EXCEPT !.parts = "other"], [NoToken EXCEPT !.header = "garbage"]}
  \cup {[NoToken EXCEPT !.alg = a, !.sig = g] :
          a \in {"RS256", "HS256", "absent"}, g \in {"valid", "invalid"}}

\* The second argument (publicKeyData) is represented by its shape: null,
\* undefined, an array of issuer records or an object; the `results`
\* property of an object (absent, [] or a list of issuer records); and the
\* publicKeys and certificates lists of the first issuer record.
NoData == [wrapper |-> "null", results |-> "absent", jwk |-> "absent", cert |-> "absent"]

UndefinedData == [NoData EXCEPT !.wrapper = "undefined"]

\* body of a non-2xx answer
ErrorBody == [NoData EXCEPT !.wrapper = "object"]

JwkLists == {"absent", "empty", "rsa", "rsa-incomplete", "ec"}
CertLists == {"absent", "empty", "pem", "malformed"}

Shapes ==
  {NoData, UndefinedData}
  \cup {[NoData EXCEPT !.wrapper = "array", !.jwk = j, !.cert = x] :
          j \in JwkLists, x \in CertLists}
  \cup {[NoData EXCEPT !.wrapper = "object", !.results = r] : r \in {"absent", "empty"}}
  \cup {[NoData EXCEPT !.wrapper = "object", !.results = "records", !.jwk = j, !.cert = x] :
          j \in JwkLists, x \in CertLists}

\* the header's alg taken as it is, without a default
Algorithm_NoDefault(token) == token.alg

\* const algorithm = header.alg || 'RS256'
Algorithm(token) == IF token.alg = "absent" THEN "RS256" ELSE token.alg

\* the token checks without the algorithm test
TokenFailure_AlgUnchecked(token) ==
  IF token.parts # "three" THEN "Invalid JWT format - expected 3 parts"
  ELSE IF token.header # "json" THEN "SyntaxError"
  ELSE "none"

\* scanRoutes.js 869-889: the error the token checks throw, "none" when the
\* token passes them (header.alg || 'RS256')
TokenFailure(token) ==
  IF token.parts # "three" THEN "Invalid JWT format - expected 3 parts"
  ELSE IF token.header # "json" THEN "SyntaxError"
  ELSE IF Algorithm(token) # "RS256" THEN "Unsupported JWT algorithm"
  ELSE "none"

\* key resolution that prefers the certificate list
ResolveKey_CertificateFirst(data) ==
  IF data.wrapper = "object" /\ data.results = "records"
    THEN IF data.cert \notin {"absent", "empty"}
           THEN IF data.cert = "pem"
                  THEN [key |-> "x509", error |-> "none"]
                  ELSE [key |-> "none", error |-> "Invalid certificate"]
         ELSE IF data.jwk \notin {"absent", "empty"}
           THEN IF data.jwk = "rsa"
                  THEN [key |-> "jwk", error |-> "none"]
                  ELSE [key |-> "none", error |-> "Unsupported JWK key type"]
         ELSE [key |-> "none",
               error |-> "No public key or certificate found in EBSI response"]
    ELSE [key |-> "none", error |-> "Invalid EBSI response structure"]

\* scanRoutes.js 897-945: the key taken from publicKeyData, or the error
\* thrown; neither null, undefined nor an array has a `results` property
ResolveKey(data) ==
  IF data.wrapper = "object" /\ data.results = "records"
    THEN IF data.jwk \notin {"absent", "empty"}
           THEN IF data.jwk = "rsa"
                  THEN [key |-> "jwk", error |-> "none"]
                  ELSE [key |-> "none", error |-> "Unsupported JWK key type"]
         ELSE IF data.cert \notin {"absent", "empty"}
           THEN IF data.cert = "pem"
                  THEN [key |-> "x509", error |-> "none"]
                  ELSE [key |-> "none", error |-> "Invalid certificate"]
         ELSE [key |-> "none",
               error |-> "No public key or certificate found in EBSI response"]
    ELSE [key |-> "none", error |-> "Invalid EBSI response structure"]

NoResult == [signatureValid |-> "none", error |-> "none", keySource |-> "none",
             stage |-> "none"]

\* the validator without its catch clause: a failure propagates to the
\* caller and no result is returned
validateJwtSignature_Rethrows(token, data) ==
  LET tf == TokenFailure(token)
      kr == ResolveKey(data)
  IN IF tf # "none"
       THEN [NoResult EXCEPT !.error = tf, !.stage = "token"]
     ELSE IF kr.error # "none"
       THEN [NoResult EXCEPT !.error = kr.error, !.stage = "key"]
     ELSE [signatureValid |-> IF token.sig = "valid" THEN "true" ELSE "false",
           error |-> "none", keySource |-> kr.key, stage |-> "verify"]

\* validateJwtSignature(jwtToken, publicKeyData): the returned object, with
\* the stage the function got to (token checks, key resolution, signature
\* check)
validateJwtSignature(token, data) ==
  LET tf == TokenFailure(token)
      kr == ResolveKey(data)
  IN IF tf # "none"
       THEN [signatureValid |-> "false", error |-> tf, keySource |-> "none",
             stage |-> "token"]
     ELSE IF kr.error # "none"
       THEN [signatureValid |-> "false", error |-> kr.error, keySource |-> "none",
             stage |-> "key"]
     ELSE [signatureValid |-> IF token.sig = "valid" THEN "true" ELSE "false",
           error |-> "none", keySource |-> kr.key, stage |-> "verify"]

\* ------------------------------------------------------------------ state
VARIABLES
  cache,     \* the EbsiCache collection: a set of documents
  nextId,    \* next _id
  lk,        \* per caller: the running checkThumbprintInBridge call
  rf,        \* per refresher: the refreshCacheInBackground cycle
  started,   \* lookups started so far
  marks,     \* markAllForRefresh calls so far
  clears,    \* clear-all requests so far
  calls,     \* per thumbprint: the stored hitCount at start (0 without an
             \* entry) plus the get/upsert calls recorded since
  overlap,   \* some operation ran while a lookup was in progress
  vf,        \* per client: the running POST /api/verify request
  quota,     \* requests the run admits
  fn,        \* the last application of a helper function to an input
  boot,      \* initializeCache, called when the module loads
  st,        \* the running GET /api/cache/stats request
  adm,       \* the last response of a bulk administration route
  progressSessions,  \* global.progressSessions: per session id the
             \* registered connection, 0 without an entry
  conns,     \* the progress-stream connections, in the order they subscribed
  sent,      \* the last progress event written
  refs,      \* the Reference collection
  rq         \* per client: the running POST /api/reference request

\* the progress stream and the reference collection
streamvars == <<progressSessions, conns, sent>>
refvars == <<refs, rq>>
\* the cache, the lookups, the refresher and the requests on them
cachevars ==
  <<cache, nextId, lk, rf, started, marks, clears, calls, overlap, vf, quota,
    fn, boot, st, adm>>

vars == <<cache, nextId, lk, rf, started, marks, clears, calls, overlap, vf,
          quota, fn, boot, st, adm, streamvars, refvars>>

IdleLookup ==
  [pc |-> "idle", tp |-> 0, force |-> FALSE, entry |-> NoDoc, orig |-> NoDoc,
   isNew |-> FALSE, answer |-> "none", errStatus |-> 0, errMsg |-> "null",
   ret |-> "none", called |-> FALSE, cached |-> "none", url |-> <<>>]

IdleRefresher == [pc |-> "idle", batch |-> <<>>]

NoInput ==
  [fail |-> "none", thrown |-> "object", kid |-> "ok", alg |-> "RS256",
   sig |-> "valid", tp |-> 0]

\* the records of a finished run that the next run of the same text is
\* compared with
NoTrace == [steps |-> <<>>, sizes |-> <<>>, percentages |-> <<>>, fromCache |-> FALSE]

IdleVerify ==
  [pc |-> "idle", input |-> NoInput, steps |-> <<>>, step |-> "none",
   signatureValid |-> "none", error |-> "none", sizes |-> <<>>,
   percentages |-> <<>>, fromCache |-> FALSE, last |-> NoTrace]

\* initializeCache has completed
Booted == [pc |-> "done", total |-> 0, stale |-> 0, started |-> FALSE]

IdleStats ==
  [pc |-> "idle", total |-> 0, found |-> 0, missing |-> 0, needsRefresh |-> 0,
   hitRate |-> 0]

NoResponse == [op |-> "none", count |-> 0]

\* no progress event written yet
NoWrite == [sid |-> 0, conn |-> 0, open |-> TRUE]

\* no set-reference request running
IdleSet == [pc |-> "idle", valid |-> TRUE, id |-> 0]

\* the process has just started: no session map entry, no connection, and
\* an empty Reference collection
AppInit ==
  /\ progressSessions = [s \in SessionIds |-> 0]
  /\ conns = <<>>
  /\ sent = NoWrite
  /\ refs = {}
  /\ rq = [c \in Clients |-> IdleSet]

NoNorm == [normalized |-> <<>>, conversionApplied |-> "none", original |-> <<>>]

\* no helper applied yet
IdleFn ==
  [op |-> "none", text |-> <<>>, norm |-> NoNorm, url |-> <<>>, back |-> <<>>,
   token |-> NoToken, data |-> NoData, result |-> NoResult]

\* the entry a first lookup answered with a non-empty array leaves behind
SeedDoc(t) ==
  [updateWithEbsiResponse(NewDoc(t), "issuers", 200, "null") EXCEPT !.id = t]

\* the collection at start: empty, or the entries earlier lookups of the
\* first thumbprints left
InitCaches == {{SeedDoc(t) : t \in 1..n} : n \in 0..2}

HitCountOf(c, t) == IF findOne(c, t) = NoDoc THEN 0 ELSE findOne(c, t).hitCount

Init ==
  /\ cache \in InitCaches
  /\ nextId = Cardinality(cache) + 1
  /\ lk = [c \in Ctx |-> IdleLookup]
  /\ rf = [r \in Cycles |-> IdleRefresher]
  /\ started = 0
  /\ marks = 0
  /\ clears = 0
  /\ calls = [t \in Thumbprints |-> HitCountOf(cache, t)]
  /\ overlap = FALSE
  /\ vf = [c \in Clients |-> IdleVerify]
  /\ quota = MaxRequests
  /\ fn = IdleFn
  /\ boot = Booted
  /\ st = IdleStats
  /\ adm = NoResponse
  /\ AppInit

Resting(c) == lk[c].pc \in {"idle", "done"}
Busy == \E c \in Ctx : ~Resting(c)

\* ------------------------------------------------ checkThumbprintInBridge
\* the call without its catch block: the error propagates to the caller
Caught_Rethrows(l, status, msg) ==
  [l EXCEPT !.pc = "thrown", !.errStatus = status, !.errMsg = msg,
            !.entry = NoDoc, !.orig = NoDoc, !.isNew = FALSE]

\* entry into the catch block (scanRoutes.js 1802): error.response?.status
\* and error.message are kept for the cache update
Caught(l, status, msg) ==
  [l EXCEPT !.pc = "catchFind", !.errStatus = status, !.errMsg = msg,
            !.entry = NoDoc, !.orig = NoDoc, !.isNew = FALSE]

Returned(l, value) ==
  [l EXCEPT !.pc = "done", !.ret = value, !.errStatus = 0,
            !.entry = NoDoc, !.orig = NoDoc, !.isNew = FALSE]

\* the forceRefresh test inverted: the cache is consulted only when forced
Enter_ForceInverted(t, force) ==
  LET d == findOne(cache, t)
      at == IF d = NoDoc THEN "none" ELSE d.found IN
  IF force /\ d # NoDoc
    THEN [IdleLookup EXCEPT !.pc = "hitSave", !.tp = t, !.force = force,
                            !.orig = d, !.cached = at,
                            !.entry = [d EXCEPT !.hitCount = d.hitCount + 1]]
    ELSE [IdleLookup EXCEPT !.pc = "http", !.tp = t, !.force = force,
                            !.cached = at, !.called = TRUE,
                            !.url = normalizeThumbprintForEbsi(ThumbprintText(t)).normalized]

\* the call up to its first await that completes: with forceRefresh the
\* registry request is issued at once; without it the cache is read first
\* and a hit goes on to the hit-count save, a miss to the registry request.
\* `cached` keeps the found value the thumbprint's entry had at the call
\* ("none" without an entry), `called` that a registry request was issued,
\* `url` the thumbprint as it appears in the request's query string.
Enter(t, force) ==
  LET d == findOne(cache, t)
      at == IF d = NoDoc THEN "none" ELSE d.found IN
  IF ~force /\ d # NoDoc
    THEN [IdleLookup EXCEPT !.pc = "hitSave", !.tp = t, !.force = force,
                            !.orig = d, !.cached = at,
                            !.entry = [d EXCEPT !.hitCount = d.hitCount + 1]]
    ELSE [IdleLookup EXCEPT !.pc = "http", !.tp = t, !.force = force,
                            !.cached = at, !.called = TRUE,
                            !.url = normalizeThumbprintForEbsi(ThumbprintText(t)).normalized]

\* an interactive caller (verifySignature, processCertificateWithBridgeLookup)
\* calls checkThumbprintInBridge(thumbprint)
LookupStart(c, t) ==
  /\ Resting(c)
  /\ \A b \in Clients : b < c => ~Resting(b)
  /\ started + marks + clears < quota
  /\ lk' = [lk EXCEPT ![c] = Enter(t, FALSE)]
  /\ started' = started + 1
  /\ overlap' = (overlap \/ Busy)
  /\ UNCHANGED <<boot, st, adm, streamvars, refvars, fn, quota, vf, cache, nextId, rf, marks, clears, calls>>

\* cache hit: await cacheEntry.save(); return cacheEntry.found
HitSave(c) ==
  /\ lk[c].pc = "hitSave"
  /\ LET l == lk[c]
         res == SaveResult(cache, FALSE, l.entry) IN
     IF res = "ok"
       THEN /\ cache' = SaveWrite(cache, FALSE, l.orig, l.entry, nextId)
            /\ lk' = [lk EXCEPT ![c] = Returned(l, l.entry.found)]
            /\ calls' = [calls EXCEPT ![l.tp] = @ + 1]
       ELSE /\ lk' = [lk EXCEPT ![c] = Caught(l, 0, res)]
            /\ UNCHANGED <<boot, st, adm, streamvars, refvars, fn, quota, vf, cache, calls>>
  /\ UNCHANGED <<boot, st, adm, streamvars, refvars, fn, quota, vf, nextId, rf, started, marks, clears, overlap>>

\* await axios.get(url, { timeout: 10000 }) completes or rejects
RegistryResponds(c, a) ==
  /\ lk[c].pc = "http"
  /\ lk' = [lk EXCEPT ![c] =
       IF a \in RegistryOk
         THEN [lk[c] EXCEPT !.answer = a,
                 !.pc = IF lk[c].entry # NoDoc THEN "updSave" ELSE "findOrCreate"]
         ELSE Caught([lk[c] EXCEPT !.answer = a], ErrorStatus(a), a)]
  /\ UNCHANGED <<boot, st, adm, streamvars, refvars, fn, quota, vf, cache, nextId, rf, started, marks, clears, calls, overlap>>

\* EbsiCache.findOrCreate(thumbprint)
findOrCreate(l, next) ==
  LET d == findOne(cache, l.tp) IN
  IF d = NoDoc
    THEN [l EXCEPT !.pc = next, !.entry = NewDoc(l.tp), !.orig = NoDoc, !.isNew = TRUE]
    ELSE [l EXCEPT !.pc = next, !.entry = d, !.orig = d, !.isNew = FALSE]

FindOrCreate(c) ==
  /\ lk[c].pc = "findOrCreate"
  /\ lk' = [lk EXCEPT ![c] = findOrCreate(lk[c], "updSave")]
  /\ UNCHANGED <<boot, st, adm, streamvars, refvars, fn, quota, vf, cache, nextId, rf, started, marks, clears, calls, overlap>>

\* await cacheEntry.updateWithEbsiResponse(data, status); return found
UpdSave(c) ==
  /\ lk[c].pc = "updSave"
  /\ LET l == lk[c]
         cur == updateWithEbsiResponse(l.entry, l.answer, HttpStatus(l.answer), "null")
         res == SaveResult(cache, l.isNew, cur) IN
     IF res = "ok"
       THEN /\ cache' = SaveWrite(cache, l.isNew, l.orig, cur, nextId)
            /\ nextId' = IF l.isNew THEN nextId + 1 ELSE nextId
            /\ lk' = [lk EXCEPT ![c] = Returned(l, FoundOf(l.answer))]
            /\ calls' = [calls EXCEPT ![l.tp] = @ + 1]
       ELSE /\ lk' = [lk EXCEPT ![c] = Caught(l, 0, res)]
            /\ UNCHANGED <<boot, st, adm, streamvars, refvars, fn, quota, vf, cache, nextId, calls>>
  /\ UNCHANGED <<boot, st, adm, streamvars, refvars, fn, quota, vf, rf, started, marks, clears, overlap>>

\* catch block: let cacheEntry = await EbsiCache.findOrCreate(thumbprint)
CatchFind(c) ==
  /\ lk[c].pc = "catchFind"
  /\ lk' = [lk EXCEPT ![c] = findOrCreate(lk[c], "catchSave")]
  /\ UNCHANGED <<boot, st, adm, streamvars, refvars, fn, quota, vf, cache, nextId, rf, started, marks, clears, calls, overlap>>

\* catch block: await cacheEntry.updateWithEbsiResponse(null, status,
\* message), a rejection of which is only logged; return false
CatchSave(c) ==
  /\ lk[c].pc = "catchSave"
  /\ LET l == lk[c]
         cur == updateWithEbsiResponse(l.entry, "null", l.errStatus, l.errMsg)
         res == SaveResult(cache, l.isNew, cur) IN
     IF res = "ok"
       THEN /\ cache' = SaveWrite(cache, l.isNew, l.orig, cur, nextId)
            /\ nextId' = IF l.isNew THEN nextId + 1 ELSE nextId
            /\ lk' = [lk EXCEPT ![c] = Returned(l, "false")]
            /\ calls' = [calls EXCEPT ![l.tp] = @ + 1]
       ELSE /\ lk' = [lk EXCEPT ![c] = Returned(l, "false")]
            /\ UNCHANGED <<boot, st, adm, streamvars, refvars, fn, quota, vf, cache, nextId, calls>>
  /\ UNCHANGED <<boot, st, adm, streamvars, refvars, fn, quota, vf, rf, started, marks, clears, overlap>>

\* ------------------------------------------------- cache administration
\* an update document that also resets the classification
SetNeedsRefresh_ResetsFound(x) == [x EXCEPT !.needsRefresh = TRUE, !.found = "false"]

\* the update document { needsRefresh: true } applied to one entry
SetNeedsRefresh(x) == [x EXCEPT !.needsRefresh = TRUE]

\* marking that drops the entries that were not found
markAllForRefresh_OnlyFound(c) ==
  {SetNeedsRefresh(x) : x \in {y \in c : y.found = "true"}}

\* EbsiCache.updateMany({}, { needsRefresh: true })
markAllForRefresh(c) == {SetNeedsRefresh(x) : x \in c}

\* result.modifiedCount of that updateMany: the schema has timestamps: true,
\* so the update also sets updatedAt to the current time and every matched
\* document is modified, whether it was flagged already or not
modifiedCount(c) == Cardinality(c)

Flagged(c) == {x \in c : x.needsRefresh}

\* POST /api/cache/refresh-all and the 24h setInterval callback of
\* initializeCache: mark every entry, then setTimeout(refreshCacheInBackground)
RefreshAll(r) ==
  /\ started + marks + clears < quota
  /\ rf[r].pc = "idle"
  /\ cache' = markAllForRefresh(cache)
  /\ rf' = [rf EXCEPT ![r] = [pc |-> "scheduled", batch |-> <<>>]]
  /\ marks' = marks + 1
  /\ overlap' = (overlap \/ Busy)
  /\ adm' = [op |-> "refresh-all", count |-> modifiedCount(cache)]
  /\ UNCHANGED <<boot, st, streamvars, refvars, fn, quota, vf, nextId, lk, started, clears, calls>>

\* POST /api/cache/clear: EbsiCache.deleteMany({})
ClearCache ==
  /\ started + marks + clears < quota
  /\ cache' = {}
  /\ clears' = clears + 1
  /\ calls' = [t \in Thumbprints |-> 0]
  /\ overlap' = (overlap \/ Busy)
  /\ adm' = [op |-> "clear", count |-> Cardinality(cache)]
  /\ UNCHANGED <<boot, st, streamvars, refvars, fn, quota, vf, nextId, lk, rf, started, marks>>

\* ---------------------------------------------- refreshCacheInBackground
Min(a, b) == IF a < b THEN a ELSE b

\* the query without its limit: every flagged entry
getEntriesNeedingRefresh_NoLimit(c, limit) ==
  LET n == Cardinality(Flagged(c)) IN
  {s \in [1..n -> Flagged(c)] : \A i, j \in 1..n : i # j => s[i] # s[j]}

\* the results of find({ needsRefresh: true }).limit(limit), in any order
getEntriesNeedingRefresh(c, limit) ==
  LET n == Min(limit, Cardinality(Flagged(c))) IN
  {s \in [1..n -> Flagged(c)] : \A i, j \in 1..n : i # j => s[i] # s[j]}

\* the timer fires: fetch one batch
RefreshStart(r) ==
  /\ rf[r].pc = "scheduled"
  /\ \E s \in getEntriesNeedingRefresh(cache, BatchSize) :
       rf' = [rf EXCEPT ![r] = [pc |-> "loop",
                batch |-> [i \in DOMAIN s |-> s[i].thumbprint]]]
  /\ UNCHANGED <<boot, st, adm, streamvars, refvars, fn, quota, vf, cache, nextId, lk, started, marks, clears, calls, overlap>>

\* loop body: await checkThumbprintInBridge(entry.thumbprint, true)
RefreshCall(r) ==
  /\ rf[r].pc = "loop"
  /\ Resting(r)
  /\ rf[r].batch # <<>>
  /\ lk' = [lk EXCEPT ![r] = Enter(Head(rf[r].batch), TRUE)]
  /\ rf' = [rf EXCEPT ![r].batch = Tail(@)]
  /\ overlap' = (overlap \/ Busy)
  /\ UNCHANGED <<boot, st, adm, streamvars, refvars, fn, quota, vf, cache, nextId, started, marks, clears, calls>>

\* after the loop: countDocuments({ needsRefresh: true }); reschedule the
\* next batch if any entry is still flagged, stop otherwise
RefreshCount(r) ==
  /\ rf[r].pc = "loop"
  /\ Resting(r)
  /\ rf[r].batch = <<>>
  /\ rf' = [rf EXCEPT ![r].pc =
              IF Cardinality(Flagged(cache)) > 0 THEN "scheduled" ELSE "idle"]
  /\ lk' = [lk EXCEPT ![r] = IdleLookup]
  /\ UNCHANGED <<boot, st, adm, streamvars, refvars, fn, quota, vf, cache, nextId, started, marks, clears, calls, overlap>>

\* ------------------------------------------------------------- getStats
\* Math.round((found / total) * 100), 0 for an empty collection
hitRate(found, total) ==
  IF total > 0 THEN (200 * found + total) \div (2 * total) ELSE 0

\* GET /api/cache/stats arrives: const total = await this.countDocuments()
StatsTotal ==
  /\ st.pc = "idle"
  /\ st' = [IdleStats EXCEPT !.pc = "found", !.total = Cardinality(cache)]
  /\ overlap' = (overlap \/ Busy)
  /\ UNCHANGED <<boot, adm, streamvars, refvars, fn, quota, vf, cache, nextId, lk, rf, started, marks, clears, calls>>

\* const found = await this.countDocuments({ found: true })
StatsFound ==
  /\ st.pc = "found"
  /\ st' = [st EXCEPT !.pc = "missing",
              !.found = Cardinality({x \in cache : x.found = "true"})]
  /\ UNCHANGED <<boot, adm, streamvars, refvars, fn, quota, vf, cache, nextId, lk, rf, started, marks, clears, calls, overlap>>

\* const missing = await this.countDocuments({ found: false })
StatsMissing ==
  /\ st.pc = "missing"
  /\ st' = [st EXCEPT !.pc = "needsRefresh",
              !.missing = Cardinality({x \in cache : x.found = "false"})]
  /\ UNCHANGED <<boot, adm, streamvars, refvars, fn, quota, vf, cache, nextId, lk, rf, started, marks, clears, calls, overlap>>

\* const needsRefresh = await this.countDocuments({ needsRefresh: true })
StatsNeedsRefresh ==
  /\ st.pc = "needsRefresh"
  /\ st' = [st EXCEPT !.pc = "lastRefresh",
              !.needsRefresh = Cardinality(Flagged(cache))]
  /\ UNCHANGED <<boot, adm, streamvars, refvars, fn, quota, vf, cache, nextId, lk, rf, started, marks, clears, calls, overlap>>

\* await this.findOne().sort({ lastChecked: -1 }); the object is returned and
\* the route sends it
StatsReturn ==
  /\ st.pc = "lastRefresh"
  /\ st' = [st EXCEPT !.pc = "done", !.hitRate = hitRate(st.found, st.total)]
  /\ UNCHANGED <<boot, adm, streamvars, refvars, fn, quota, vf, cache, nextId, lk, rf, started, marks, clears, calls, overlap>>

\* --------------------------------------------------------- initializeCache
\* the test of line 1976 without its second operand
NeedsInitialRefresh_StaleOnly(staleEntries, total) == staleEntries > 0

\* if (staleEntries > 0 || stats.total === 0)
NeedsInitialRefresh(staleEntries, total) == staleEntries > 0 \/ total = 0

\* entries whose lastChecked is more than 24 hours back
Stale(c) == {x \in c : x.lastChecked = "old"}

\* const stats = await EbsiCache.getStats(), of which only total is used
InitStats ==
  /\ boot.pc = "stats"
  /\ boot' = [boot EXCEPT !.pc = "count", !.total = Cardinality(cache)]
  /\ UNCHANGED <<st, adm, streamvars, refvars, fn, quota, vf, cache, nextId, lk, rf, started, marks, clears, calls, overlap>>

\* await countDocuments({ lastChecked: { $lt: twentyFourHoursAgo } }) and the
\* test on its result; without a refresh the function goes on to setInterval
InitCount ==
  /\ boot.pc = "count"
  /\ LET staleEntries == Cardinality(Stale(cache)) IN
     boot' = [boot EXCEPT !.stale = staleEntries,
                !.pc = IF NeedsInitialRefresh(staleEntries, boot.total)
                         THEN "mark" ELSE "done"]
  /\ UNCHANGED <<st, adm, streamvars, refvars, fn, quota, vf, cache, nextId, lk, rf, started, marks, clears, calls, overlap>>

\* await EbsiCache.markAllForRefresh(); setTimeout(refreshCacheInBackground,
\* 5000); setInterval
InitMark(r) ==
  /\ boot.pc = "mark"
  /\ rf[r].pc = "idle"
  /\ cache' = markAllForRefresh(cache)
  /\ rf' = [rf EXCEPT ![r] = [pc |-> "scheduled", batch |-> <<>>]]
  /\ boot' = [boot EXCEPT !.pc = "done", !.started = TRUE]
  /\ UNCHANGED <<st, adm, streamvars, refvars, fn, quota, vf, nextId, lk, started, marks, clears, calls, overlap>>

\* the setInterval callback, registered when initializeCache is through
PeriodicRefresh(r) ==
  /\ boot.pc = "done"
  /\ RefreshAll(r)

\* ------------------------------------------------ processVerificationData
\* The scanned text is represented by what the decode stages make of it:
\* the stage that fails (if any), whether a failing pako.inflate throws an
\* Error object or a primitive (it throws the zlib message), and the kid,
\* alg and thumbprint of the token it carries (a token without a well-formed
\* kid names no thumbprint) and whether its signature is the issuer's.
DecodeStages == {"base45", "zlib", "jwt"}

\* texts that fail in a decode stage, and texts that decode to a token
Inputs ==
  {[NoInput EXCEPT !.fail = "zlib", !.thrown = k] : k \in {"object", "primitive"}}
  \cup {[NoInput EXCEPT !.fail = f] : f \in {"base45", "jwt"}}
  \cup {[NoInput EXCEPT !.kid = k, !.alg = a] :
     k \in {"missing", "malformed"}, a \in {"RS256", "HS256", "absent"}}
  \cup {[NoInput EXCEPT !.alg = a, !.tp = t] :
     a \in {"RS256", "HS256", "absent"}, t \in Thumbprints}
  \cup {[NoInput EXCEPT !.sig = "invalid", !.tp = t] : t \in Thumbprints}

\* names of the step records, in the order they are pushed
StepNames ==
  <<"Original BASE45 String", "Decoded BASE45 (ZLIB Compressed)",
    "Decompressed ZLIB (JWT)", "Parsed JWT (Clear Text)",
    "Signature Verification Response", "JWT Signature Validation">>

\* number of records pushed before the given stage throws
RecordsBefore(stage) ==
  IF stage = "base45" THEN 1 ELSE IF stage = "zlib" THEN 2 ELSE 3

\* what the failing stage throws: base45.decode an Error, pako.inflate an
\* Error or a primitive, the token stage new Error('Invalid JWT format')
Thrown(input) ==
  [kind |-> IF input.fail = "zlib" THEN input.thrown ELSE "object",
   step |-> "undefined"]

\* `error.step = tag` in a catch clause; on a primitive the assignment has
\* no effect (the module is not in strict mode)
SetStep(e, tag) == IF e.kind = "object" THEN [e EXCEPT !.step = tag] ELSE e

\* the nested catch clauses an error of the given stage passes through,
\* innermost first (scanRoutes.js 848-859)
Rethrown(stage, e) ==
  LET e3 == IF stage = "jwt" THEN SetStep(e, "JWT parsing") ELSE e
      e2 == IF stage \in {"jwt", "zlib"} THEN SetStep(e3, "ZLIB decompression") ELSE e3
  IN SetStep(e2, "BASE45 decoding")

\* POST /api/verify, catch clause: step: error.step || 'unknown'
ReportedStep(e) == IF e.step = "undefined" THEN "unknown" ELSE e.step

\* an inflate failure that is swallowed instead of rethrown
FailingStage_InflateSwallowed(input) ==
  IF input.fail = "zlib" THEN "none" ELSE input.fail

\* the stage whose failure aborts the decode, "none" when all three pass
FailingStage(input) == input.fail

\* the token jwt.decode accepted
TokenOf(input) == [NoToken EXCEPT !.alg = input.alg, !.sig = input.sig]

\* a read-back that hands the validator a usable issuer record whatever the
\* entry holds
SignatureData_KeyRegardless(d) ==
  [NoData EXCEPT !.wrapper = "object", !.results = "records", !.jwk = "rsa"]

\* verifySignature 1140-1149: data of the signature response, read back from
\* the thumbprint's entry: its ebsiResponse (the registry's array, whose
\* first record carries an RSA JWK when it is not empty) or null
SignatureData(d) ==
  IF d # NoDoc /\ d.ebsiResponse # "null"
    THEN [NoData EXCEPT !.wrapper = "array",
                        !.jwk = IF d.ebsiResponse = "issuers" THEN "rsa" ELSE "absent"]
    ELSE NoData

\* verifySignature 1174-1192: data of the error object returned when the
\* lookup rejects
RejectedData(l) == IF l.errStatus # 0 THEN ErrorBody ELSE UndefinedData

\* verifySignature 1162-1173: the response object built from the entry read
\* back; fromCache is !!cacheEntry, cacheHitCount is cacheEntry?.hitCount || 0
SignatureResponse(d) ==
  [error |-> FALSE, data |-> SignatureData(d), fromCache |-> d # NoDoc,
   cacheHitCount |-> IF d = NoDoc THEN 0 ELSE d.hitCount]

\* verifySignature 1174-1192: the error object of its catch clause
ErrorResponse(data) ==
  [error |-> TRUE, data |-> data, fromCache |-> FALSE, cacheHitCount |-> 0]

\* Byte lengths of the parts of the JSON texts that are the same for every
\* run of one scanned text: the parsed token, the keys and input-derived
\* values of the response object, one issuer record, one error message.
TokenSize == 400
EnvelopeSize == 300
RecordSize == 100
MessageSize == 20

\* length of the literal true or false
BoolSize(b) == IF b THEN 4 ELSE 5

\* number of decimal digits
Digits(n) == IF n < 10 THEN 1 ELSE IF n < 100 THEN 2 ELSE 3

\* length of the data member: null, [] or the array of issuer records
DataSize(data) ==
  IF data.wrapper = "array"
    THEN IF data.jwk = "absent" THEN 2 ELSE 2 + RecordSize
    ELSE 4

\* Buffer.byteLength(JSON.stringify(signatureResponse, null, 2))
ResponseSize(resp) ==
  IF resp.error
    THEN EnvelopeSize + MessageSize
    ELSE EnvelopeSize + DataSize(resp.data) + BoolSize(resp.fromCache)
           + Digits(resp.cacheHitCount)

\* Buffer.byteLength(JSON.stringify(jwtValidationResult, null, 2)); the
\* record of a validation that threw has size 0
ValidationSize(v) ==
  IF v.signatureValid = "none" THEN 0
  ELSE BoolSize(v.signatureValid = "true")
         + (IF v.error = "none" THEN 0 ELSE MessageSize)

\* Math.round((size / of) * 100)
Percentage(size, of) == (200 * size + of) \div (2 * of)

\* processVerificationData 803-840: the records once the validation ran
StepsAfter(v) ==
  IF v.signatureValid = "none"
    THEN SubSeq(StepNames, 1, 5) \o <<"JWT Signature Validation (FAILED)">>
    ELSE StepNames

\* processVerificationData 793-840: the run once verifySignature returned
\* resp: the response record, the validation and its record
Validated(run, input, resp) ==
  LET v == validateJwtSignature(TokenOf(input), resp.data) IN
  [run EXCEPT !.pc = "done", !.input = input, !.steps = StepsAfter(v),
     !.signatureValid = v.signatureValid, !.error = v.error,
     !.sizes = <<ResponseSize(resp), ValidationSize(v)>>,
     !.percentages =
        <<Percentage(ResponseSize(resp), TokenSize),
          IF v.signatureValid = "none" THEN 0
          ELSE Percentage(ValidationSize(v), ResponseSize(resp))>>,
     !.fromCache = resp.fromCache]

\* a kid test that lets every header through
UsableKid_Unchecked(input) == TRUE

\* verifySignature 1094-1104: the header has a kid, and the kid splits at
\* ':' into at least three parts of which the second is 'x5t#S256'
UsableKid(input) == input.kid = "ok"

\* the request up to its first await: the three decode stages and the kid
\* check of verifySignature run synchronously; a token without a usable kid
\* makes verifySignature return an error object, which has no data. `last`
\* is what the run remembers of the previous run of the text.
Submit(c, input, last) ==
  /\ Resting(c)
  /\ vf[c].pc # "lookup"
  /\ \A b \in Clients : b < c => (~Resting(b) \/ vf[b].pc = "lookup")
  /\ started + marks + clears < quota
  /\ started' = started + 1
  /\ LET stage == FailingStage(input)
         run == [IdleVerify EXCEPT !.last = last] IN
     IF stage # "none"
       THEN /\ vf' = [vf EXCEPT ![c] = [run EXCEPT !.pc = "failed",
                        !.input = input,
                        !.steps = SubSeq(StepNames, 1, RecordsBefore(stage)),
                        !.step = ReportedStep(Rethrown(stage, Thrown(input)))]]
            /\ lk' = [lk EXCEPT ![c] = IdleLookup]
       ELSE IF ~UsableKid(input)
         THEN /\ vf' = [vf EXCEPT ![c] =
                          Validated(run, input, ErrorResponse(UndefinedData))]
              /\ lk' = [lk EXCEPT ![c] = IdleLookup]
         ELSE /\ vf' = [vf EXCEPT ![c] = [run EXCEPT !.pc = "lookup",
                          !.input = input, !.steps = SubSeq(StepNames, 1, 4)]]
              /\ lk' = [lk EXCEPT ![c] = Enter(input.tp, FALSE)]
  /\ overlap' = (overlap \/ Busy \/ \E b \in Clients : vf[b].pc = "lookup")
  /\ UNCHANGED <<boot, st, adm, streamvars, refvars, fn, quota, cache, nextId, rf, marks, clears, calls>>

\* POST /api/verify with a scanned text
VerifyStart(c, input) == Submit(c, input, NoTrace)

\* the text of the client's finished request is submitted again
VerifyAgain(c) ==
  /\ vf[c].pc \in {"done", "failed"}
  /\ Submit(c, vf[c].input,
            [steps |-> vf[c].steps, sizes |-> vf[c].sizes,
             percentages |-> vf[c].percentages, fromCache |-> vf[c].fromCache])

\* verifySignature after checkThumbprintInBridge settled: read the entry
\* back (EbsiCache.findOne), then validateJwtSignature on the response data
VerifyFinish(c) ==
  /\ vf[c].pc = "lookup"
  /\ lk[c].pc \in {"done", "thrown"}
  /\ LET resp == IF lk[c].pc = "thrown"
                   THEN ErrorResponse(RejectedData(lk[c]))
                   ELSE SignatureResponse(findOne(cache, vf[c].input.tp)) IN
     vf' = [vf EXCEPT ![c] = Validated(@, vf[c].input, resp)]
  /\ UNCHANGED <<boot, st, adm, streamvars, refvars, fn, quota, cache, nextId, lk, rf, started, marks, clears, calls, overlap>>

\* ---------------------------------------------------------- specification
Next ==
  \/ \E c \in Clients, t \in Thumbprints : LookupStart(c, t)
  \/ \E c \in Ctx : HitSave(c)
  \/ \E c \in Ctx, a \in RegistryAnswers : RegistryResponds(c, a)
  \/ \E c \in Ctx : FindOrCreate(c)
  \/ \E c \in Ctx : UpdSave(c)
  \/ \E c \in Ctx : CatchFind(c)
  \/ \E c \in Ctx : CatchSave(c)
  \/ \E r \in Refreshers : RefreshAll(r)
  \/ ClearCache
  \/ \E r \in Refreshers : RefreshStart(r)
  \/ \E r \in Refreshers : RefreshCall(r)
  \/ \E r \in Refreshers : RefreshCount(r)

Spec == Init /\ [][Next]_vars

\* verification requests only
VerifyNext ==
  \/ \E c \in Clients, input \in Inputs : VerifyStart(c, input)
  \/ \E c \in Clients : VerifyFinish(c)
  \/ \E c \in Clients : HitSave(c)
  \/ \E c \in Clients, a \in RegistryAnswers : RegistryResponds(c, a)
  \/ \E c \in Clients : FindOrCreate(c)
  \/ \E c \in Clients : UpdSave(c)
  \/ \E c \in Clients : CatchFind(c)
  \/ \E c \in Clients : CatchSave(c)

VerifySpec == Init /\ [][VerifyNext]_vars

\* timers fire, database operations complete and every registry request
\* ends within the 10s timeout; which answer it ends with is not constrained
FairSpec ==
  /\ Spec
  /\ \A r \in Refreshers :
       WF_vars(RefreshStart(r)) /\ WF_vars(RefreshCall(r)) /\ WF_vars(RefreshCount(r))
  /\ \A c \in Ctx :
       /\ WF_vars(HitSave(c)) /\ WF_vars(FindOrCreate(c)) /\ WF_vars(UpdSave(c))
       /\ WF_vars(CatchFind(c)) /\ WF_vars(CatchSave(c))
       /\ WF_vars(\E a \in RegistryAnswers : RegistryResponds(c, a))

\* ------------------------------------------------------ helper functions
sysvars ==
  <<cache, nextId, lk, rf, started, marks, clears, calls, overlap, vf, quota,
    boot, st, adm, streamvars, refvars>>

\* normalizeThumbprintForEbsi(text)
Normalize(text) ==
  /\ fn.op = "none"
  /\ fn' = [IdleFn EXCEPT !.op = "normalize", !.text = text,
                          !.norm = normalizeThumbprintForEbsi(text)]
  /\ UNCHANGED sysvars

\* base64UrlToBase64(base64ToBase64Url(text))
Convert(text) ==
  /\ fn.op = "none"
  /\ fn' = [IdleFn EXCEPT !.op = "convert", !.text = text,
                          !.url = base64ToBase64Url(text),
                          !.back = base64UrlToBase64(base64ToBase64Url(text))]
  /\ UNCHANGED sysvars

\* validateJwtSignature(token, data)
Validate(token, data) ==
  /\ fn.op = "none"
  /\ fn' = [IdleFn EXCEPT !.op = "validate", !.token = token, !.data = data,
                          !.result = validateJwtSignature(token, data)]
  /\ UNCHANGED sysvars

HelperNext ==
  \/ \E text \in Texts : Normalize(text)
  \/ \E text \in Texts : Convert(text)
  \/ \E token \in Tokens, data \in Shapes : Validate(token, data)

\* one helper applied to one input of the bounded domains
HelperSpec == Init /\ [][HelperNext]_vars

\* interactive lookups only, one request more than MaxRequests
HitInit ==
  /\ cache \in InitCaches
  /\ nextId = Cardinality(cache) + 1
  /\ lk = [c \in Ctx |-> IdleLookup]
  /\ rf = [r \in Cycles |-> IdleRefresher]
  /\ started = 0
  /\ marks = 0
  /\ clears = 0
  /\ calls = [t \in Thumbprints |-> HitCountOf(cache, t)]
  /\ overlap = FALSE
  /\ vf = [c \in Clients |-> IdleVerify]
  /\ quota = MaxRequests + 1
  /\ fn = IdleFn
  /\ boot = Booted
  /\ st = IdleStats
  /\ adm = NoResponse
  /\ AppInit

HitNext ==
  \/ \E c \in Clients, t \in Thumbprints : LookupStart(c, t)
  \/ \E c \in Clients : HitSave(c)
  \/ \E c \in Clients, a \in RegistryAnswers : RegistryResponds(c, a)
  \/ \E c \in Clients : FindOrCreate(c)
  \/ \E c \in Clients : UpdSave(c)
  \/ \E c \in Clients : CatchFind(c)
  \/ \E c \in Clients : CatchSave(c)

HitSpec == HitInit /\ [][HitNext]_vars

\* the process starts on a collection an earlier run left behind: entries
\* checked within the last 24 hours or before, flagged or not
StartCaches ==
  UNION {{{[SeedDoc(t) EXCEPT !.lastChecked = age[t], !.needsRefresh = flag[t]] :
             t \in 1..n} :
           age \in [1..n -> {"old", "now"}], flag \in [1..n -> BOOLEAN]} :
         n \in 0..2}

StartupInit ==
  /\ cache \in StartCaches
  /\ nextId = Cardinality(cache) + 1
  /\ lk = [c \in Ctx |-> IdleLookup]
  /\ rf = [r \in Cycles |-> IdleRefresher]
  /\ started = 0
  /\ marks = 0
  /\ clears = 0
  /\ calls = [t \in Thumbprints |-> HitCountOf(cache, t)]
  /\ overlap = FALSE
  /\ vf = [c \in Clients |-> IdleVerify]
  /\ quota = MaxRequests
  /\ fn = IdleFn
  /\ boot = [Booted EXCEPT !.pc = "stats"]
  /\ st = IdleStats
  /\ adm = NoResponse
  /\ AppInit

\* startup, the refresh cycles and the periodic timer, before any request
StartupNext ==
  \/ InitStats
  \/ InitCount
  \/ \E r \in Refreshers : InitMark(r)
  \/ \E r \in Refreshers : PeriodicRefresh(r)
  \/ \E r \in Refreshers : RefreshStart(r)
  \/ \E r \in Refreshers : RefreshCall(r)
  \/ \E r \in Refreshers : RefreshCount(r)
  \/ \E r \in Refreshers, a \in RegistryAnswers : RegistryResponds(r, a)
  \/ \E r \in Refreshers : FindOrCreate(r)
  \/ \E r \in Refreshers : UpdSave(r)
  \/ \E r \in Refreshers : CatchFind(r)
  \/ \E r \in Refreshers : CatchSave(r)

StartupSpec == StartupInit /\ [][StartupNext]_vars

\* one statistics request, with interactive lookups and the bulk routes
StatsNext ==
  \/ StatsTotal
  \/ StatsFound
  \/ StatsMissing
  \/ StatsNeedsRefresh
  \/ StatsReturn
  \/ \E r \in Refreshers : RefreshAll(r)
  \/ ClearCache
  \/ HitNext

StatsSpec == Init /\ [][StatsNext]_vars

\* the bulk routes called in quick succession, before a refresh timer fires
AdminNext ==
  \/ \E r \in Cycles : RefreshAll(r)
  \/ ClearCache
  \/ HitNext

AdminSpec == Init /\ [][AdminNext]_vars

\* an entry that has been looked up many times
AgedDoc(t) == [SeedDoc(t) EXCEPT !.hitCount = 8]

RerunInit ==
  /\ cache \in InitCaches \cup {{AgedDoc(1)}}
  /\ nextId = Cardinality(cache) + 1
  /\ lk = [c \in Ctx |-> IdleLookup]
  /\ rf = [r \in Cycles |-> IdleRefresher]
  /\ started = 0
  /\ marks = 0
  /\ clears = 0
  /\ calls = [t \in Thumbprints |-> HitCountOf(cache, t)]
  /\ overlap = FALSE
  /\ vf = [c \in Clients |-> IdleVerify]
  /\ quota = MaxRequests
  /\ fn = IdleFn
  /\ boot = Booted
  /\ st = IdleStats
  /\ adm = NoResponse
  /\ AppInit

\* verification requests, each text possibly submitted a second time
RerunNext ==
  \/ VerifyNext
  \/ \E c \in Clients : VerifyAgain(c)

RerunSpec == RerunInit /\ [][RerunNext]_vars

\* the refresh triggers and the cycles they start, without other requests
CyclesNext ==
  \/ \E r \in Cycles : RefreshAll(r)
  \/ \E r \in Cycles : RefreshStart(r)
  \/ \E r \in Cycles : RefreshCall(r)
  \/ \E r \in Cycles : RefreshCount(r)
  \/ \E r \in Cycles, a \in RegistryAnswers : RegistryResponds(r, a)
  \/ \E r \in Cycles : FindOrCreate(r)
  \/ \E r \in Cycles : UpdSave(r)
  \/ \E r \in Cycles : CatchFind(r)
  \/ \E r \in Cycles : CatchSave(r)

CyclesSpec == Init /\ [][CyclesNext]_vars

\* --------------------------------------------------------- progress stream
\* req.on('close'): global.progressSessions.delete(sessionId), for the
\* session id of connection k
Disconnected(sessions, k) == [sessions EXCEPT ![conns[k].sid] = 0]

\* GET /api/check-bridge/progress/:sessionId: progressSessions.set(sessionId,
\* res), the close handler is registered, the 'connected' message is written
Subscribe(s) ==
  /\ Len(conns) < MaxConnections
  /\ conns' = Append(conns, [sid |-> s, open |-> TRUE])
  /\ progressSessions' = [progressSessions EXCEPT ![s] = Len(conns) + 1]
  /\ UNCHANGED <<sent, refvars, cachevars>>

\* the client's connection closes and the close handler runs
Disconnect(k) ==
  /\ k \in DOMAIN conns
  /\ conns[k].open
  /\ conns' = [conns EXCEPT ![k].open = FALSE]
  /\ progressSessions' = Disconnected(progressSessions, k)
  /\ UNCHANGED <<sent, refvars, cachevars>>

\* sendProgress(type, message) of an upload running under session id s: the
\* event is written to the registered connection, if there is one
SendProgress(s) ==
  /\ progressSessions[s] # 0
  /\ sent' = [sid |-> s, conn |-> progressSessions[s],
              open |-> conns[progressSessions[s]].open]
  /\ UNCHANGED <<progressSessions, conns, refvars, cachevars>>

StreamNext ==
  \/ \E s \in SessionIds : Subscribe(s)
  \/ \E k \in 1..MaxConnections : Disconnect(k)
  \/ \E s \in SessionIds : SendProgress(s)

StreamSpec == Init /\ [][StreamNext]_vars

\* ------------------------------------------------------------- references
\* Reference.updateMany({}, { isActive: false })
Deactivated(c) == {[x EXCEPT !.isActive = FALSE] : x \in c}

Active(c) == {x \in c : x.isActive}

\* POST /api/reference up to its first await completing: the existing
\* references are deactivated; `valid` is whether the body has a content
SetReference(c, valid) ==
  /\ rq[c].pc # "save"
  /\ Cardinality(refs) + Cardinality({b \in Clients : rq[b].pc = "save"})
       < MaxReferences
  /\ refs' = Deactivated(refs)
  /\ rq' = [rq EXCEPT ![c] = [pc |-> "save", valid |-> valid, id |-> 0]]
  /\ UNCHANGED <<streamvars, cachevars>>

\* await reference.save() of new Reference({content, name, isActive: true});
\* content is required, so a body without it is rejected and answered 500
SaveReference(c) ==
  /\ rq[c].pc = "save"
  /\ IF rq[c].valid
       THEN /\ refs' = refs \cup {[id |-> Cardinality(refs) + 1, isActive |-> TRUE]}
            /\ rq' = [rq EXCEPT ![c] = [@ EXCEPT !.pc = "done",
                                          !.id = Cardinality(refs) + 1]]
       ELSE /\ rq' = [rq EXCEPT ![c] = [@ EXCEPT !.pc = "failed"]]
            /\ UNCHANGED refs
  /\ UNCHANGED <<streamvars, cachevars>>

\* DELETE /api/reference
ClearReference ==
  /\ refs' = Deactivated(refs)
  /\ UNCHANGED <<rq, streamvars, cachevars>>

ReferenceNext ==
  \/ \E c \in Clients, valid \in BOOLEAN : SetReference(c, valid)
  \/ \E c \in Clients : SaveReference(c)
  \/ ClearReference

ReferenceSpec == Init /\ [][ReferenceNext]_vars

\* ----------------------------------------------------------------- claims
Entries(t) == {x \in cache : x.thumbprint = t}

\* C1: whatever lookups, refreshes and administration requests have run, in
\* any interleaving, the collection holds at most one entry per thumbprint.
C1_OneEntryPerThumbprint ==
  \A x, y \in cache : x.thumbprint = y.thumbprint => x = y

\* two callers queried the registry for the same uncached thumbprint, both
\* tried to record the answer, and the thumbprint has its entry
C1_Witness ==
  \E c1, c2 \in Ctx :
    /\ c1 # c2
    /\ lk[c1].pc = "done" /\ lk[c2].pc = "done"
    /\ lk[c1].tp = lk[c2].tp
    /\ lk[c1].called /\ lk[c2].called
    /\ lk[c2].errMsg = "E11000"
    /\ Entries(lk[c1].tp) # {}

\* C2: as long as the get/upsert calls ran one after another, every entry's
\* hitCount equals the number of get/upsert calls made on its thumbprint.
C2_HitCountEqualsCalls ==
  ~overlap => \A x \in cache : x.hitCount = calls[x.thumbprint]

\* C3: once entries have been flagged and a refresh cycle is scheduled, the
\* refresher eventually stops with no entry flagged needsRefresh.
C3_RefreshConverges ==
  (\E r \in Refreshers : rf[r].pc = "scheduled")
    ~> ((\A r \in Refreshers : rf[r].pc = "idle") /\ Flagged(cache) = {})

\* C4: a lookup whose registry request failed returns false and leaves an
\* entry for the thumbprint with found=false, lastStatus the HTTP status (0
\* without a response) and lastError set.
C4_FailureRecorded ==
  [][\A c \in Ctx :
       (lk[c].pc = "catchSave" /\ lk[c].answer \in RegistryFail /\ lk'[c].pc = "done")
         => /\ lk'[c].ret = "false"
            /\ \E x \in cache' :
                 /\ x.thumbprint = lk[c].tp
                 /\ x.found = "false"
                 /\ x.lastStatus = ErrorStatus(lk[c].answer)
                 /\ x.lastError # "null"]_vars

C6_ClearedWhenRecorded ==
  [][/\ \A c \in Ctx :
          (lk[c].pc \in {"updSave", "catchSave"} /\ lk[c].answer # "none"
             /\ lk'[c].pc = "done")
            => \A x \in cache' : x.thumbprint = lk[c].tp => ~x.needsRefresh
     /\ \A x \in cache, y \in cache' :
          (x.id = y.id /\ x.needsRefresh /\ ~y.needsRefresh)
            => \E c \in Ctx : /\ lk[c].pc \in {"updSave", "catchSave"}
                              /\ lk'[c].pc = "done"
                              /\ lk[c].tp = x.thumbprint]_vars

\* C7: a cache-hit lookup that saves its increment raises the stored
\* hitCount by one, also when another lookup of the same thumbprint saved
\* between its read and its save.
C7_NoLostIncrement ==
  [][\A c \in Ctx :
       (lk[c].pc = "hitSave" /\ lk'[c].pc = "done")
         => HitCountOf(cache', lk[c].tp) = HitCountOf(cache, lk[c].tp) + 1]_vars

\* C8: two overlapping lookups of an uncached thumbprint that got the same
\* registry answer both return the registry's found value, and the single
\* entry holds what one lookup alone would have recorded.
C8_IdempotentUpsert ==
  \A c1, c2 \in Clients :
    (/\ c1 # c2 /\ clears = 0
     /\ lk[c1].pc = "done" /\ lk[c2].pc = "done"
     /\ lk[c1].tp = lk[c2].tp
     /\ lk[c1].cached = "none" /\ lk[c2].cached = "none"
     /\ lk[c1].answer \in RegistryOk /\ lk[c2].answer = lk[c1].answer)
      => /\ lk[c1].ret = FoundOf(lk[c1].answer)
         /\ lk[c2].ret = FoundOf(lk[c1].answer)
         /\ Entries(lk[c1].tp) # {}
         /\ \A x \in Entries(lk[c1].tp) :
              /\ x.found = FoundOf(lk[c1].answer)
              /\ x.ebsiResponse = lk[c1].answer
              /\ x.lastStatus = 200
              /\ x.lastError = "null"

\* the name a failure of each decode stage is to be reported under
C9_StageName(stage) ==
  IF stage = "base45" THEN "BASE45 decoding"
  ELSE IF stage = "zlib" THEN "ZLIB decompression" ELSE "JWT parsing"

\* C9: a verification that failed in a decode stage reports the name of
\* the stage in which the failure originated.
C9_StageTagged ==
  \A c \in Clients :
    vf[c].pc = "failed" => vf[c].step = C9_StageName(vf[c].input.fail)

\* the records a decode that fails in the given stage has produced
C10_Prefix(stage) ==
  IF stage = "base45" THEN <<"Original BASE45 String">>
  ELSE IF stage = "zlib"
    THEN <<"Original BASE45 String", "Decoded BASE45 (ZLIB Compressed)">>
    ELSE <<"Original BASE45 String", "Decoded BASE45 (ZLIB Compressed)",
           "Decompressed ZLIB (JWT)">>

\* C10: a verification of a text that fails in a decode stage fails, with
\* the records of the stages before the failing one and no others, without
\* issuing a lookup; the step in which it fails leaves the cache unchanged.
C10_FailureStopsPipeline ==
  /\ [](\A c \in Clients :
         vf[c].input.fail # "none"
           => /\ vf[c].pc = "failed"
              /\ vf[c].steps = C10_Prefix(vf[c].input.fail)
              /\ lk[c] = IdleLookup)
  /\ [][\A c \in Clients :
         (vf'[c].pc = "failed" /\ vf'[c] # vf[c]) => cache' = cache]_vars

\* a text that is not BASE45 was submitted while the cache held an entry:
\* only the record of the original text exists
C10_Witness ==
  \E c \in Clients :
    /\ vf[c].pc = "failed" /\ vf[c].input.fail = "base45"
    /\ vf[c].steps = <<"Original BASE45 String">>
    /\ cache # {}

\* C11: a verification whose three decode stages succeeded never fails, and
\* when its registry request failed the lookup returns false and the
\* verification ends with all six records and signatureValid=false.
C11_FailureAbsorbed ==
  \A c \in Clients :
    /\ vf[c].input.fail = "none" => vf[c].pc # "failed"
    /\ (vf[c].pc = "done" /\ lk[c].answer \in RegistryFail)
         => /\ lk[c].pc = "done" /\ lk[c].ret = "false"
            /\ vf[c].signatureValid = "false"
            /\ vf[c].steps = StepNames

\* a well-formed RS256 token with a good signature was verified while the
\* registry answered 503
C11_Witness ==
  \E c \in Clients :
    /\ vf[c].pc = "done" /\ lk[c].answer = "http503"
    /\ vf[c].input.alg = "RS256" /\ vf[c].input.sig = "valid"
    /\ vf[c].signatureValid = "false"

\* the inputs on which validateJwtSignature raises an exception internally
C12_Raises(token, data) ==
  \/ token.parts # "three"
  \/ token.header # "json"
  \/ token.alg = "HS256"
  \/ data.wrapper # "object"
  \/ data.results # "records"
  \/ data.jwk \in {"rsa-incomplete", "ec"}
  \/ data.jwk \in {"absent", "empty"} /\ data.cert # "pem"

\* C12 as stated: validateJwtSignature always returns a result, and every
\* result with signatureValid=false carries the error message.
C12_ErrorAttached ==
  fn.op = "validate"
    => /\ fn.result.signatureValid \in {"true", "false"}
       /\ (C12_Raises(fn.token, fn.data) \/ fn.token.sig = "invalid")
            => /\ fn.result.signatureValid = "false"
               /\ fn.result.error # "none"

\* C12 amended: validateJwtSignature always returns a result; when an
\* exception is raised inside it the result has signatureValid=false and
\* the error message, and signature bytes that do not verify give
\* signatureValid=false.
C12_NoException ==
  fn.op = "validate"
    => /\ fn.result.signatureValid \in {"true", "false"}
       /\ C12_Raises(fn.token, fn.data)
            => /\ fn.result.signatureValid = "false"
               /\ fn.result.error # "none"
       /\ fn.token.sig = "invalid" => fn.result.signatureValid = "false"

\* the validator was applied to an issuer record with an EC key
C12_Witness ==
  /\ fn.op = "validate"
  /\ fn.token = NoToken
  /\ fn.data.results = "records" /\ fn.data.jwk = "ec"
  /\ fn.result.signatureValid = "false"
  /\ fn.result.error = "Unsupported JWK key type"

\* C13: when the entry read back holds the registry's non-empty array,
\* whose first record carries an RSA JWK, the verification of an RS256
\* token resolves that key and signatureValid is the outcome of the
\* signature check.
C13_FoundIssuerResolves ==
  [][\A c \in Clients :
       (/\ vf[c].pc = "lookup" /\ vf'[c].pc = "done"
        /\ vf[c].input.alg # "HS256"
        /\ findOne(cache, vf[c].input.tp).ebsiResponse = "issuers")
         => /\ vf'[c].error = "none"
            /\ vf'[c].signatureValid =
                 IF vf[c].input.sig = "valid" THEN "true" ELSE "false"]_vars

\* C14: a token whose header declares HS256 is rejected with the
\* unsupported-algorithm error and signatureValid=false in the token checks,
\* before key resolution and the signature check.
C14_AlgRejectedFirst ==
  (/\ fn.op = "validate"
   /\ fn.token.parts = "three" /\ fn.token.header = "json"
   /\ fn.token.alg = "HS256")
    => /\ fn.result.signatureValid = "false"
       /\ fn.result.error = "Unsupported JWT algorithm"
       /\ fn.result.stage = "token"
       /\ fn.result.keySource = "none"

\* an HS256 token was validated against an issuer record with a usable RSA
\* JWK
C14_Witness ==
  /\ fn.op = "validate"
  /\ fn.token.alg = "HS256" /\ fn.token.sig = "valid"
  /\ fn.data.results = "records" /\ fn.data.jwk = "rsa"
  /\ fn.result.signatureValid = "false"

\* C15: for a token that passes the token checks, a record without a
\* non-empty results list fails with invalid-registry-response; otherwise a
\* non-empty JWK list decides alone (RSA with n and e gives the key,
\* anything else unsupported-key-type); the first certificate is used only
\* without a JWK list; with neither the result is no-key-material.
C15_ResolutionPriority ==
  (fn.op = "validate" /\ fn.token.parts = "three" /\ fn.token.header = "json"
     /\ fn.token.alg # "HS256")
    => LET d == fn.data
           r == fn.result
       IN IF d.wrapper # "object" \/ d.results # "records"
            THEN r.error = "Invalid EBSI response structure" /\ r.keySource = "none"
          ELSE IF d.jwk \notin {"absent", "empty"}
            THEN IF d.jwk = "rsa"
                   THEN r.keySource = "jwk" /\ r.error = "none"
                   ELSE r.keySource = "none" /\ r.error = "Unsupported JWK key type"
          ELSE IF d.cert \notin {"absent", "empty"}
            THEN IF d.cert = "pem"
                   THEN r.keySource = "x509" /\ r.error = "none"
                   ELSE r.keySource = "none" /\ r.error # "none"
          ELSE /\ r.keySource = "none"
               /\ r.error = "No public key or certificate found in EBSI response"

\* an issuer record with an EC JWK and a good certificate was resolved: the
\* JWK list decided
C15_Witness ==
  /\ fn.op = "validate"
  /\ fn.token = NoToken
  /\ fn.data.results = "records" /\ fn.data.jwk = "ec" /\ fn.data.cert = "pem"
  /\ fn.result.error = "Unsupported JWK key type"

\* the base64url form of a text, character by character
RECURSIVE C16_UrlSafe(_)
C16_UrlSafe(s) ==
  IF s = <<>> THEN <<>>
  ELSE (IF Head(s) = "=" THEN <<>>
        ELSE IF Head(s) = "+" THEN <<"-">>
        ELSE IF Head(s) = "/" THEN <<"_">>
        ELSE <<Head(s)>>) \o C16_UrlSafe(Tail(s))

\* C16: the normalizer reports the branch of the four-way policy that the
\* markers of the input select, converts only an input with standard
\* markers alone, and returns the input as original.
C16_FourWayPolicy ==
  fn.op = "normalize"
    => LET t == fn.text
           std == \E i \in 1..Len(t) : t[i] \in {"+", "/", "="}
           url == \E i \in 1..Len(t) : t[i] \in {"-", "_"}
       IN /\ fn.norm.original = t
          /\ (std /\ ~url) => /\ fn.norm.conversionApplied = "base64-to-base64url"
                              /\ fn.norm.normalized = C16_UrlSafe(t)
          /\ (url /\ ~std) => /\ fn.norm.conversionApplied = "already-base64url"
                              /\ fn.norm.normalized = t
          /\ (~std /\ ~url) => /\ fn.norm.conversionApplied = "assumed-base64url"
                               /\ fn.norm.normalized = t
          /\ (std /\ url) => /\ fn.norm.conversionApplied = "mixed-encoding-kept-as-is"
                             /\ fn.norm.normalized = t

\* a text with both kinds of markers was normalized and kept as it is
C16_Witness ==
  /\ fn.op = "normalize"
  /\ fn.text = <<"+", "-", "A", "=">>
  /\ fn.norm.normalized = <<"+", "-", "A", "=">>
  /\ fn.norm.conversionApplied = "mixed-encoding-kept-as-is"

\* standard base64: groups of four characters of the standard alphabet, the
\* last group ending in at most two padding characters; with a marker
C17_Standard(s) ==
  /\ Len(s) > 0 /\ Len(s) % 4 = 0
  /\ \A i \in 1..Len(s) : s[i] \in {"A", "+", "/", "="}
  /\ \A i \in 1..Len(s) :
       s[i] = "=" => i >= Len(s) - 1 /\ \A j \in i..Len(s) : s[j] = "="
  /\ \E i \in 1..Len(s) : s[i] \in {"+", "/", "="}

\* C17: converting a standard base64 text that has a marker to base64url
\* and back gives the text again.
C17_RoundTrip ==
  (fn.op = "convert" /\ C17_Standard(fn.text)) => fn.back = fn.text

\* a padded text with both standard characters went there and back
C17_Witness ==
  /\ fn.op = "convert"
  /\ fn.text = <<"+", "/", "=", "=">>
  /\ fn.url = <<"-", "_">>
  /\ fn.back = <<"+", "/", "=", "=">>

\* C18: what a lookup is about to record has found=true exactly for a
\* non-empty array and the boolean false otherwise (empty array, null after
\* a failed request), the issuer data of the first record when found, and
\* publicKey and issuerInfo reset when not found.
C18_FoundIsBoolean ==
  \A c \in Ctx :
    LET l == lk[c]
        cur == IF l.pc = "updSave"
                 THEN updateWithEbsiResponse(l.entry, l.answer, HttpStatus(l.answer), "null")
                 ELSE updateWithEbsiResponse(l.entry, "null", l.errStatus, l.errMsg)
    IN l.pc \in {"updSave", "catchSave"}
         => /\ cur.found = IF l.pc = "updSave" /\ l.answer = "issuers"
                             THEN "true" ELSE "false"
            /\ cur.found = "true" => cur.issuerInfo = "issuer0"
            /\ cur.found = "false" => cur.publicKey = "null" /\ cur.issuerInfo = "empty"

\* C19: the stored hitCount of an entry that stays in the cache never
\* decreases, whatever lookups of its thumbprint interleave.
C19_HitCountMonotonic ==
  [][\A x \in cache, y \in cache' :
       x.id = y.id => y.hitCount >= x.hitCount]_vars

\* C20: a step that is not a clear-all request keeps every entry of the
\* cache.
C20_OnlyClearDeletes ==
  [][clears' = clears
       => \A x \in cache : \E y \in cache' :
            y.id = x.id /\ y.thumbprint = x.thumbprint]_vars

\* the cache was marked stale, the refresh of an entry failed, and the entry
\* is still there
C20_Witness ==
  \E r \in Refreshers :
    /\ lk[r].pc = "done" /\ lk[r].answer \in RegistryFail
    /\ marks > 0 /\ clears = 0
    /\ Entries(lk[r].tp) # {}

C22_StartupRefresh ==
  [][/\ (boot.pc # "done" /\ boot'.pc = "done") =>
          IF Stale(cache) # {} \/ cache = {}
            THEN /\ cache' = {[x EXCEPT !.needsRefresh = TRUE] : x \in cache}
                 /\ Cardinality({r \in Refreshers : rf'[r].pc = "scheduled"}) = 1
            ELSE cache' = cache /\ rf' = rf
     /\ (boot' # boot /\ boot'.pc # "done") => (cache' = cache /\ rf' = rf)
     /\ \A r \in Refreshers :
          (rf[r].pc = "idle" /\ rf'[r].pc # "idle") =>
            \/ boot.pc = "mark" /\ boot'.pc = "done"
            \/ boot.pc = "done" /\ marks' = marks + 1]_vars

\* startup found an entry older than 24 hours, flagged them all and scheduled
\* the first batch
C22_Witness ==
  /\ boot.pc = "done" /\ boot.started /\ boot.stale > 0 /\ marks = 0
  /\ \E r \in Refreshers : rf[r].pc = "scheduled"
  /\ cache # {} /\ Flagged(cache) = cache

\* C23: every lookup that was started ends by returning true or false, and
\* one whose registry request timed out ends like any other failed request:
\* it returns false and leaves an entry for the thumbprint that records the
\* error (found=false, lastStatus 0, lastError set).
C23_TimeoutRecorded ==
  /\ \A c \in Ctx :
       (lk[c].pc \notin {"idle", "done"})
         ~> (lk[c].pc = "done" /\ lk[c].ret \in {"true", "false"})
  /\ [][\A c \in Ctx :
          (lk[c].answer = "timeout" /\ lk[c].pc # "done" /\ lk'[c].pc = "done")
            => /\ lk'[c].ret = "false"
               /\ \E x \in cache' :
                    /\ x.thumbprint = lk[c].tp
                    /\ x.found = "false"
                    /\ x.lastStatus = 0
                    /\ x.lastError = "timeout"]_vars

\* C24: the statistics a request returns have hitRate the rounded percentage
\* of found in total (0 for an empty collection), total = found + missing and
\* needsRefresh <= total, whatever lookups and bulk operations ran while the
\* statistics were computed.
C24_StatsConsistent ==
  st.pc = "done" =>
    /\ st.hitRate = IF st.total = 0 THEN 0
                    ELSE (200 * st.found + st.total) \div (2 * st.total)
    /\ st.total = st.found + st.missing
    /\ st.needsRefresh <= st.total

\* C25: mark-all applied to a collection the previous mark-all left (every
\* entry flagged) changes no entry and reports zero entries affected, and
\* clear-all applied after a clear-all leaves the collection empty and reports
\* zero entries affected.
C25_BulkIdempotent ==
  [][/\ (marks' = marks + 1 /\ adm.op = "refresh-all" /\ Flagged(cache) = cache) =>
          (cache' = cache /\ adm'.count = 0)
     /\ (clears' = clears + 1 /\ adm.op = "clear" /\ cache = {}) =>
          (cache' = cache /\ adm'.count = 0)]_vars

\* C26: when a text is verified, and verified again once the first run has
\* finished, with no other request in between and the registry answering
\* whenever it is asked, the two runs produce the same step names, the same
\* sizes and the same percentages.
C26_SameTrace ==
  \A c \in Clients :
    (/\ vf[c].pc = "done" /\ vf[c].last # NoTrace /\ ~overlap
     /\ lk[c].answer \notin RegistryFail
     /\ vf[c].input.kid = "ok" => vf[c].last.fromCache)
      => /\ vf[c].steps = vf[c].last.steps
         /\ vf[c].sizes = vf[c].last.sizes
         /\ vf[c].percentages = vf[c].last.percentages

C28_FailureCachedNegative ==
  [][\A c \in Clients :
       (/\ lk[c].pc = "done" /\ lk[c].answer \in RegistryFail
        /\ lk'[c].pc \notin {"idle", "done"}
        /\ lk'[c].tp = lk[c].tp /\ ~lk'[c].force
        /\ marks = 0 /\ clears = 0 /\ ~overlap')
         => (~lk'[c].called /\ lk'[c].cached = "false")]_vars

\* C29: a lookup reads and writes only the entry whose thumbprint is the
\* string it was called with: the entry it works on has that thumbprint, the
\* normalized form appears only in the registry query, and a step that is
\* neither mark-all nor clear-all changes, creates or removes an entry only
\* of a thumbprint that a lookup taking that step was called with.
C29_OnlyOwnEntry ==
  [][/\ \A c \in Ctx :
          /\ lk'[c].entry # NoDoc => lk'[c].entry.thumbprint = lk'[c].tp
          /\ lk'[c].orig # NoDoc => lk'[c].orig.thumbprint = lk'[c].tp
          /\ lk'[c].called =>
               lk'[c].url = normalizeThumbprintForEbsi(ThumbprintText(lk'[c].tp)).normalized
     /\ (marks' = marks /\ clears' = clears) =>
          \A x \in (cache \ cache') \cup (cache' \ cache) :
            \E c \in Ctx : lk[c].tp = x.thumbprint /\ lk'[c] # lk[c]]_vars

\* the URL-safe writing of a thumbprint was looked up and got its own entry
\* while the entry of the standard writing, which has the same registry
\* query, stayed as it was
C29_Witness ==
  \E c \in Clients :
    /\ lk[c].pc = "done" /\ lk[c].tp = 2 /\ lk[c].called
    /\ lk[c].url = normalizeThumbprintForEbsi(ThumbprintText(1)).normalized
    /\ SeedDoc(1) \in cache
    /\ \E y \in cache : y.thumbprint = 2

\* C30: no step of a lookup made by the background refresher adds a
\* thumbprint to the collection: the thumbprints cached after the step are
\* among those cached before it, also when clear-all ran during the batch.
C30_RefreshCreatesNothing ==
  [][\A r \in Refreshers :
       lk'[r] # lk[r] =>
         {x.thumbprint : x \in cache'} \subseteq {x.thumbprint : x \in cache}]_vars

\* C31: at most one refresh cycle is scheduled or running at any time, and
\* the refresher never has two registry requests in flight at once.
C31_SingleCycle ==
  /\ Cardinality({r \in Cycles : rf[r].pc # "idle"}) <= 1
  /\ Cardinality({r \in Cycles : lk[r].pc = "http"}) <= 1

\* C32: the request for a token whose header has no kid, or a kid not of the
\* form <prefix>:x5t#S256:<thumbprint>, issues no registry request and leaves
\* every cache entry as it was; it completes at once with all six records
\* and signatureValid=false.
C32_BadKidNoLookup ==
  [][\A c \in Clients :
       (vf'[c] # vf[c] /\ vf'[c].input.fail = "none" /\ vf'[c].input.kid # "ok") =>
         /\ cache' = cache /\ calls' = calls
         /\ lk'[c].pc = "idle" /\ ~lk'[c].called
         /\ vf'[c].pc = "done"
         /\ Len(vf'[c].steps) = 6
         /\ vf'[c].signatureValid = "false"]_vars

\* a token without kid was verified while the cache held an entry
C32_Witness ==
  \E c \in Clients :
    /\ vf[c].pc = "done" /\ vf[c].input.kid = "missing"
    /\ vf[c].signatureValid = "false" /\ vf[c].error # "none"
    /\ lk[c] = IdleLookup
    /\ cache # {} /\ cache \in InitCaches

\* C33: a mark-all step leaves every entry in the collection with found,
\* ebsiResponse, publicKey, issuerInfo, lastChecked, lastStatus, lastError,
\* hitCount (and identity) as before and with needsRefresh=true, and neither
\* adds nor removes an entry.
C33_MarkOnlyFlags ==
  [][(marks' = marks + 1 \/ (boot.pc = "mark" /\ boot'.pc = "done")) =>
       /\ \A x \in cache :
            \E y \in cache' :
              /\ y.needsRefresh
              /\ \A f \in DocFields \ {"needsRefresh"} : y[f] = x[f]
       /\ \A y \in cache' : y.needsRefresh /\ \E x \in cache : x.id = y.id
       /\ Cardinality(cache') = Cardinality(cache)]_vars

\* mark-all ran on a collection holding an unflagged entry of a lookup that
\* found no issuer: the entry is flagged and otherwise as the lookup left it
C33_Witness ==
  /\ marks = 1
  /\ \E x \in cache :
       /\ x.needsRefresh /\ x.found = "false" /\ x.lastStatus = 200
       /\ x.hitCount = 2 /\ x.ebsiResponse = "empty"

\* C34: a well-formed token whose header declares no alg is validated as if
\* it declared RS256: it is not rejected as an unsupported algorithm in the
\* token checks, and its result is the one key resolution and the signature
\* check give for the same token with alg RS256.
C34_MissingAlgIsRS256 ==
  (/\ fn.op = "validate"
   /\ fn.token.parts = "three" /\ fn.token.header = "json"
   /\ fn.token.alg = "absent")
    => /\ fn.result.error # "Unsupported JWT algorithm"
       /\ fn.result.stage \in {"key", "verify"}
       /\ fn.result = validateJwtSignature([fn.token EXCEPT !.alg = "RS256"], fn.data)
       /\ ResolveKey(fn.data).error = "none" =>
            /\ fn.result.stage = "verify"
            /\ fn.result.signatureValid =
                 IF fn.token.sig = "valid" THEN "true" ELSE "false"

\* a token without alg, signed by the issuer, was validated against an issuer
\* record with a usable RSA JWK and found valid
C34_Witness ==
  /\ fn.op = "validate"
  /\ fn.token.alg = "absent" /\ fn.token.sig = "valid"
  /\ fn.data.results = "records" /\ fn.data.jwk = "rsa"
  /\ fn.result.signatureValid = "true" /\ fn.result.keySource = "jwk"

\* C35: a session id has an entry in the session map exactly when the
\* connection that subscribed last under that id is still open, the entry is
\* that connection, and the last progress event was written to a connection
\* that was open.
C35_Latest(s) ==
  LET K == {k \in DOMAIN conns : conns[k].sid = s} IN
  IF K = {} THEN 0 ELSE CHOOSE k \in K : \A j \in K : j <= k

C35_RegisteredIffOpen ==
  /\ \A s \in SessionIds :
       IF C35_Latest(s) # 0 /\ conns[C35_Latest(s)].open
         THEN progressSessions[s] = C35_Latest(s)
         ELSE progressSessions[s] = 0
  /\ sent.open

\* C36: at most one reference is active at any time; when a set request
\* completes the active reference is the one it saved, and when a clear
\* request completes none is active.
C36_OneActiveReference ==
  [][/\ Cardinality(Active(refs')) <= 1
     /\ \A c \in Clients :
          (rq[c].pc = "save" /\ rq'[c].pc = "done") =>
            Active(refs') = {[id |-> rq'[c].id, isActive |-> TRUE]}
     /\ (refs' # refs /\ rq' = rq) => Active(refs') = {}]_vars

====
